---- MODULE Spec2Model ----
(***************************************************************************)
(* Model of the WAF IP set descriptor differ of                            *)
(* internal/service/opensearch/domain_policy.go (DiffIPSetDescriptors) and *)
(* of a caller that holds the two lists it passes.                         *)
(*                                                                         *)
(* A Go slice is a window (pointer, length) on a backing array.  The       *)
(* caller's new slice and the function's parameter newD start as the same  *)
(* window on the same array: what the function writes through newD, the    *)
(* caller reads through its own slice, whose length stays what it was.     *)
(* The array behind old is only read.  The two lists are separate arrays,  *)
(* as the lists updateIPSetDescriptors receives (schema.Set.List(), nil).  *)
(***************************************************************************)
EXTENDS Integers, Sequences, FiniteSets, TLC

\* WAF requires UpdateIPSet operations be split into batches of 1000 Updates
ipSetUpdatesLimit == 1000

\* waf.ChangeActionInsert / waf.ChangeActionDelete
ChangeActionInsert == "INSERT"
ChangeActionDelete == "DELETE"

\* waf.IPSetDescriptorTypeIpv4 / waf.IPSetDescriptorTypeIpv6
IPSetDescriptorTypes == {"IPV4", "IPV6"}

\* One element of ip_set_descriptors: map[string]interface{} with the keys
\* "type" and "value".  The CIDR string of "value" is only ever compared and
\* copied, so it is modelled by the number of the address block.
Descriptor(t, v) == [type |-> t, value |-> v]

----------------------------------------------------------------------------
\* Bounds of the explored inputs.

\* Longest old and new list enumerated exhaustively.
MaxLen == 3

\* The descriptors the exhaustive lists are drawn from: both fields vary.
SmallDescriptors ==
    {Descriptor("IPV4", 1), Descriptor("IPV4", 2), Descriptor("IPV6", 1)}

SeqsUpTo(S, n) == UNION {[1..k -> S] : k \in 0..n}

\* k distinct IPV4 descriptors, numbered from `first`.
Block(first, k) == [x \in 1..k |-> Descriptor("IPV4", first + x - 1)]

\* Lists long enough to fill batches: old holds k descriptors, new holds m
\* descriptors, the last c of old being the first c of new.
BigInput(k, m, c) == [old |-> Block(100, k), new |-> Block(100 + k - c, m)]

Half == ipSetUpdatesLimit \div 2

BigInputs ==
    { BigInput(0, 2 * ipSetUpdatesLimit + Half, 0),
      BigInput(ipSetUpdatesLimit, 0, 0),
      BigInput(0, ipSetUpdatesLimit, 0),
      BigInput(ipSetUpdatesLimit - 1, 0, 0),
      BigInput(1, ipSetUpdatesLimit, 0),
      BigInput(Half + 1, ipSetUpdatesLimit, 1),
      BigInput(Half, Half, Half),
      BigInput(ipSetUpdatesLimit + Half, ipSetUpdatesLimit + Half, Half) }

SmallInputs ==
    { [old |-> o, new |-> n] : o \in SeqsUpTo(SmallDescriptors, MaxLen),
                               n \in SeqsUpTo(SmallDescriptors, MaxLen) }

Inputs == SmallInputs \cup BigInputs

----------------------------------------------------------------------------
\* DiffIPSetDescriptors as a function of its two arguments.  Its locals are
\* carried in a record:
\*   newArr          the backing array of newD (shared with the caller's slice)
\*   newLen          len(newD)
\*   updates         the running batch
\*   updatesBatches  the completed batches

\* &waf.IPSetUpdate{Action: ..., IPSetDescriptor: {Type, Value}}
IPSetUpdate(action, descriptor) ==
    [Action |-> action,
     IPSetDescriptor |-> [Type |-> descriptor.type, Value |-> descriptor.value]]

\* sliceContainsMap(l, m): index (from 1; 0 when absent) of the first element
\* of l that is deeply equal to m.
sliceContainsMap(l, m) ==
    IF \E k \in 1..Len(l) : l[k] = m
    THEN CHOOSE k \in 1..Len(l) : l[k] = m /\ \A h \in 1..(k - 1) : l[h] # m
    ELSE 0

\* Variant: removes the element after the match,
\* append(newD[:idx+1], newD[idx+2:]...).
RemoveAtOffByOne(arr, len, idx) ==
    [k \in 1..Len(arr) |-> IF k > idx /\ k < len THEN arr[k + 1] ELSE arr[k]]

\* append(newD[:idx], newD[idx+1:]...) on the array behind newD: the elements
\* after idx move one place down inside the array, the last place of the old
\* window keeps its value.
RemoveAt(arr, len, idx) ==
    [k \in 1..Len(arr) |-> IF k >= idx /\ k < len THEN arr[k + 1] ELSE arr[k]]

\* Variant: closes a batch as soon as an append fills it.
AppendUpdateEager(st, u) ==
    IF Len(st.updates) + 1 = ipSetUpdatesLimit
    THEN [st EXCEPT !.updatesBatches = Append(@, Append(st.updates, u)),
                    !.updates = <<>>]
    ELSE [st EXCEPT !.updates = Append(@, u)]

\* Variant: pushes the full batch but goes on appending to it.
AppendUpdateNoReset(st, u) ==
    IF Len(st.updates) = ipSetUpdatesLimit
    THEN [st EXCEPT !.updatesBatches = Append(@, st.updates),
                    !.updates = Append(@, u)]
    ELSE [st EXCEPT !.updates = Append(@, u)]

\* Variant: starts a fresh batch without pushing the full one.
AppendUpdateDropFull(st, u) ==
    IF Len(st.updates) = ipSetUpdatesLimit
    THEN [st EXCEPT !.updates = <<u>>]
    ELSE [st EXCEPT !.updates = Append(@, u)]

\* Variant: puts the new operation at the front of the running batch.
AppendUpdatePrepend(st, u) ==
    IF Len(st.updates) = ipSetUpdatesLimit
    THEN [st EXCEPT !.updatesBatches = Append(@, st.updates), !.updates = <<u>>]
    ELSE [st EXCEPT !.updates = <<u>> \o @]

\* The flush-then-append of both loops (lines 649-660 and 666-677):
\*   if len(updates) == ipSetUpdatesLimit {
\*       updatesBatches = append(updatesBatches, updates)
\*       updates = make([]*waf.IPSetUpdate, 0, ipSetUpdatesLimit)
\*   }
\*   updates = append(updates, u)
AppendUpdate(st, u) ==
    IF Len(st.updates) = ipSetUpdatesLimit
    THEN [st EXCEPT !.updatesBatches = Append(@, st.updates), !.updates = <<u>>]
    ELSE [st EXCEPT !.updates = Append(@, u)]

\* Variant: a matched element of old does not take its match out of newD.
OldStepNoConsume(st, od) ==
    IF sliceContainsMap(SubSeq(st.newArr, 1, st.newLen), od) # 0
    THEN st
    ELSE AppendUpdate(st, IPSetUpdate(ChangeActionDelete, od))

\* One pass of the first loop, for the element od of oldD.
OldStep(st, od) ==
    LET idx == sliceContainsMap(SubSeq(st.newArr, 1, st.newLen), od)
    IN IF idx # 0
       THEN [st EXCEPT !.newArr = RemoveAt(st.newArr, st.newLen, idx),
                       !.newLen = st.newLen - 1]
       ELSE AppendUpdate(st, IPSetUpdate(ChangeActionDelete, od))

\* One pass of the second loop, for the element nd of newD.
NewStep(st, nd) == AppendUpdate(st, IPSetUpdate(ChangeActionInsert, nd))

RECURSIVE OldLoop(_, _, _, _)
\* for _, od := range oldD, over the places lo..hi of oldD in order: the first
\* half of the places, then the second half from the state the first left.
OldLoop(st, oldD, lo, hi) ==
    IF lo > hi THEN st
    ELSE IF lo = hi THEN OldStep(st, oldD[lo])
    ELSE LET mid == (lo + hi) \div 2
             first == OldLoop(st, oldD, lo, mid)
         \* len(newD) is never negative: the test only makes the first half
         \* finish before the second starts.
         IN IF first.newLen >= 0 THEN OldLoop(first, oldD, mid + 1, hi) ELSE first

RECURSIVE NewLoop(_, _, _, _)
\* for _, nd := range newD, over the places lo..hi of the array behind newD.
NewLoop(st, arr, lo, hi) ==
    IF lo > hi THEN st
    ELSE IF lo = hi THEN NewStep(st, arr[lo])
    ELSE LET mid == (lo + hi) \div 2
             first == NewLoop(st, arr, lo, mid)
         IN IF first.newLen >= 0 THEN NewLoop(first, arr, mid + 1, hi) ELSE first

\* Variant: the second loop ranges over the list as long as the caller gave it.
RangeLenStale(st) == Len(st.newArr)

\* len(newD) as `range newD` evaluates it, once, when the second loop starts.
RangeLen(st) == st.newLen

\* Variant: the running batch is pushed only when it holds something.
FinalPushOnlyLeftOver(st) ==
    IF st.updates = <<>> THEN st.updatesBatches
    ELSE Append(st.updatesBatches, st.updates)

\* updatesBatches = append(updatesBatches, updates); return updatesBatches
FinalPush(st) == Append(st.updatesBatches, st.updates)

\* DiffIPSetDescriptors(oldD, newD): the plan it returns, and the contents it
\* leaves in the array behind newD.
DiffIPSetDescriptors(oldD, newD) ==
    LET st0 == [newArr |-> newD, newLen |-> Len(newD),
                updates |-> <<>>, updatesBatches |-> <<>>]
        st1 == OldLoop(st0, oldD, 1, Len(oldD))
        st2 == NewLoop(st1, st1.newArr, 1, RangeLen(st1))
    IN [plan |-> FinalPush(st2), newArr |-> st2.newArr]

----------------------------------------------------------------------------
VARIABLES
    pc,             \* "call": the caller is about to call; "done": it returned
    old0,           \* the value of the caller's old list when the call was made
    new0,           \* the value of the caller's new list when the call was made
    callerOld,      \* what the caller reads through its old slice
    callerNew,      \* what the caller reads through its new slice
    updatesBatches, \* the plan the call returned
    firstPlan,      \* the plan an earlier call with the same slices returned
    h,              \* the resource operation that runs ("none": the differ alone)
    d,              \* its *schema.ResourceData: id, isNew, attrs (names written)
    cfg,            \* what it reads from the configuration and the prior state
    next,           \* place in the plan of the batch updateIPSetDescriptors submits next
    requests,       \* the remote API calls issued so far, in order
    remote,         \* the descriptors of the remote IP set
    diags           \* the diagnostics the operation returns: "none" or "error"

differVars == <<pc, old0, new0, callerOld, callerNew, updatesBatches, firstPlan>>
resourceVars == <<h, d, cfg, next, requests, remote, diags>>
vars == <<differVars, resourceVars>>

\* No resource operation runs: the differ is called on its own.
NoResource ==
    /\ h = "none"
    /\ d = [id |-> "", isNew |-> FALSE, attrs |-> {}]
    /\ cfg = <<>>
    /\ next = 0
    /\ requests = <<>>
    /\ remote = {}
    /\ diags = "none"

Init ==
    /\ \E in \in Inputs :
        /\ old0 = in.old
        /\ new0 = in.new
        /\ callerOld = in.old
        /\ callerNew = in.new
    /\ pc = "call"
    /\ updatesBatches = <<>>
    /\ firstPlan = <<>>
    /\ NoResource

\* The caller calls DiffIPSetDescriptors(old, new) and gets the plan back.  Its
\* new slice keeps its length and reads the array the function worked on; the
\* array behind old is only read.
Call ==
    /\ pc = "call"
    /\ LET r == DiffIPSetDescriptors(callerOld, callerNew)
       IN /\ updatesBatches' = r.plan
          /\ callerNew' = r.newArr
    /\ pc' = "done"
    /\ UNCHANGED <<old0, new0, callerOld, firstPlan, resourceVars>>

Next == Call

Spec == Init /\ [][Next]_vars

----------------------------------------------------------------------------
\* Vocabulary of the properties.

\* The plan the call returned.
Returned == pc = "done"

RECURSIVE Flatten(_)
\* The batches of a plan concatenated in order.
Flatten(batches) ==
    IF batches = <<>> THEN <<>> ELSE Head(batches) \o Flatten(Tail(batches))

Range(s) == {s[k] : k \in 1..Len(s)}

NoDuplicates(s) == Cardinality(Range(s)) = Len(s)

\* Number of places of s that hold x.
Count(s, x) == Cardinality({k \in 1..Len(s) : s[k] = x})

\* Which occurrence of its value the element at place p of s is (1 = first).
Occurrence(s, p) == Cardinality({k \in 1..p : s[k] = s[p]})

IsDelete(u) == u.Action = ChangeActionDelete
IsInsert(u) == u.Action = ChangeActionInsert

Max(a, b) == IF a >= b THEN a ELSE b

\* Total number of operations of the returned plan.
Total == Len(Flatten(updatesBatches))

BatchSizes == [k \in 1..Len(updatesBatches) |-> Len(updatesBatches[k])]

\* The places of s, in order, whose element is left over when every element
\* of t cancels one equal element of s, earliest occurrences first.
Indices(s) == [p \in 1..Len(s) |-> p]
LeftOver(s, t) ==
    LET Keep(p) == Occurrence(s, p) > Count(t, s[p])
    IN SelectSeq(Indices(s), Keep)

----------------------------------------------------------------------------
\* C1: for duplicate-free old and new lists, the flattened plan holds exactly
\* one Delete for every record of old with no equal record in new, exactly one
\* Insert for every record of new with no equal record in old, and no other
\* operation (so none for a record present in both).
C1_Completeness ==
    (Returned /\ NoDuplicates(old0) /\ NoDuplicates(new0)) =>
        LET flat == Flatten(updatesBatches)
            onlyOld == Range(old0) \ Range(new0)
            onlyNew == Range(new0) \ Range(old0)
        IN /\ \A r \in onlyOld : Count(flat, IPSetUpdate(ChangeActionDelete, r)) = 1
           /\ \A r \in onlyNew : Count(flat, IPSetUpdate(ChangeActionInsert, r)) = 1
           /\ Len(flat) = Cardinality(onlyOld) + Cardinality(onlyNew)
           /\ \A k \in 1..Len(flat) :
                \/ \E r \in onlyOld : flat[k] = IPSetUpdate(ChangeActionDelete, r)
                \/ \E r \in onlyNew : flat[k] = IPSetUpdate(ChangeActionInsert, r)

\* A returned plan for duplicate-free lists with a record in both lists, a
\* record only in old and a record only in new.
C1_Witness ==
    /\ Returned /\ NoDuplicates(old0) /\ NoDuplicates(new0)
    /\ Range(old0) \cap Range(new0) # {}
    /\ Range(old0) \ Range(new0) # {}
    /\ Range(new0) \ Range(old0) # {}

\* C2 as stated: when the total number of operations is a positive multiple of
\* the batch size, the plan is total/N full batches followed by one empty batch.
C2_TrailingEmptyBatch ==
    (Returned /\ Total > 0 /\ Total % ipSetUpdatesLimit = 0) =>
        /\ Len(updatesBatches) = Total \div ipSetUpdatesLimit + 1
        /\ updatesBatches[Len(updatesBatches)] = <<>>

\* C2 amended: when the total number of operations is a positive multiple of
\* the batch size, the plan is exactly total/N full batches and holds no empty
\* batch; the plan ends with an empty batch only when there is no operation.
C2_NoTrailingEmptyBatch ==
    Returned =>
        /\ (Total > 0 /\ Total % ipSetUpdatesLimit = 0) =>
              /\ Len(updatesBatches) = Total \div ipSetUpdatesLimit
              /\ \A k \in 1..Len(updatesBatches) :
                    Len(updatesBatches[k]) = ipSetUpdatesLimit
        /\ (updatesBatches[Len(updatesBatches)] = <<>>) <=> (Total = 0)

\* A returned plan of two full batches: deletes fill the first, inserts the second.
C2_Witness ==
    /\ Returned
    /\ Total = 2 * ipSetUpdatesLimit
    /\ BatchSizes = <<ipSetUpdatesLimit, ipSetUpdatesLimit>>

\* C3: after the call the caller's old and new lists hold what they held when
\* the call was made.
C3_NoSideEffects ==
    Returned => (callerOld = old0 /\ callerNew = new0)

\* C4: in a returned plan every batch but the last holds exactly N = 1000
\* operations and the last between 0 and N; no batch holds more than N.
C4_BatchSizeBound ==
    Returned =>
        /\ ipSetUpdatesLimit = 1000
        /\ Len(updatesBatches) >= 1
        /\ \A k \in 1..Len(updatesBatches) :
              Len(updatesBatches[k]) <= ipSetUpdatesLimit
        /\ \A k \in 1..(Len(updatesBatches) - 1) :
              Len(updatesBatches[k]) = ipSetUpdatesLimit
        /\ Len(updatesBatches[Len(updatesBatches)]) \in 0..ipSetUpdatesLimit

\* A returned plan with full batches followed by a partly filled last batch.
C4_Witness ==
    /\ Returned
    /\ Len(updatesBatches) >= 3
    /\ Len(updatesBatches[Len(updatesBatches)]) \in 1..(ipSetUpdatesLimit - 1)

\* C5: when old and new are the lists of two equal sets of records, in any
\* order (lists that repeat no record, as (*schema.Set).List() yields, the
\* two empty lists included), the plan is one empty batch; no returned plan
\* is an empty list of batches.
C5_SetEqualNoOp ==
    Returned =>
        /\ Len(updatesBatches) >= 1
        /\ (/\ NoDuplicates(old0)
            /\ NoDuplicates(new0)
            /\ Range(old0) = Range(new0))
           => updatesBatches = << <<>> >>

\* A returned plan for two lists of the same three records in different orders.
C5_Witness ==
    /\ Returned
    /\ Len(old0) = 3 /\ NoDuplicates(old0)
    /\ Range(old0) = Range(new0) /\ Len(new0) = 3
    /\ old0 # new0
    /\ updatesBatches = << <<>> >>

\* C6: in the flattened plan no Insert comes before a Delete.
C6_DeletesBeforeInserts ==
    Returned =>
        LET flat == Flatten(updatesBatches)
        IN \A a \in 1..Len(flat) :
              IsInsert(flat[a]) => \A b \in (a + 1)..Len(flat) : IsInsert(flat[b])

\* A returned plan of several batches whose first batch holds deletes and
\* inserts and whose later batches hold inserts.
C6_Witness ==
    /\ Returned
    /\ Len(updatesBatches) >= 2
    /\ \E k \in 1..Len(updatesBatches[1]) : IsDelete(updatesBatches[1][k])
    /\ \E k \in 1..Len(updatesBatches[1]) : IsInsert(updatesBatches[1][k])
    /\ Len(updatesBatches[2]) > 0

\* C7: the number of non-empty batches of the plan is ceil(total / N); an
\* empty old list and 2500 distinct new records give sizes 1000, 1000, 500.
C7_BatchCount ==
    Returned =>
        /\ Cardinality({k \in 1..Len(updatesBatches) : updatesBatches[k] # <<>>})
              = (Total + ipSetUpdatesLimit - 1) \div ipSetUpdatesLimit
        /\ (old0 = <<>> /\ Len(new0) = 2500 /\ NoDuplicates(new0)) =>
              BatchSizes = <<1000, 1000, 500>>

\* The returned plan of the example: no old record, 2500 distinct new records.
C7_Witness ==
    /\ Returned
    /\ old0 = <<>> /\ Len(new0) = 2500 /\ NoDuplicates(new0)
    /\ Len(updatesBatches) = 3

\* C8: the flattened plan is the left-over records of old as Deletes, in the
\* order of old, followed by the left-over records of new as Inserts, in the
\* order of new.
C8_OrderPreserved ==
    Returned =>
        LET dels == LeftOver(old0, new0)
            inss == LeftOver(new0, old0)
        IN Flatten(updatesBatches) =
              [k \in 1..Len(dels) |-> IPSetUpdate(ChangeActionDelete, old0[dels[k]])]
              \o [k \in 1..Len(inss) |-> IPSetUpdate(ChangeActionInsert, new0[inss[k]])]

\* A returned plan with two deletes and two inserts around matched records.
C8_Witness ==
    /\ Returned
    /\ Len(LeftOver(old0, new0)) >= 2
    /\ Len(LeftOver(new0, old0)) >= 2
    /\ Range(old0) \cap Range(new0) # {}

\* C9: with duplicates, a record held k times by old and m times by new gets
\* max(k-m, 0) Deletes and max(m-k, 0) Inserts; every match takes the first
\* equal record still in new, so the Inserts are the later occurrences.
C9_FirstAvailableMatching ==
    (Returned /\ (~NoDuplicates(old0) \/ ~NoDuplicates(new0))) =>
        LET flat == Flatten(updatesBatches)
            inss == LeftOver(new0, old0)
        IN /\ \A r \in Range(old0) \cup Range(new0) :
                /\ Count(flat, IPSetUpdate(ChangeActionDelete, r))
                      = Max(Count(old0, r) - Count(new0, r), 0)
                /\ Count(flat, IPSetUpdate(ChangeActionInsert, r))
                      = Max(Count(new0, r) - Count(old0, r), 0)
           /\ SelectSeq(flat, IsInsert) =
                [k \in 1..Len(inss) |-> IPSetUpdate(ChangeActionInsert, new0[inss[k]])]

\* A returned plan for lists that repeat a record: twice in old and once in
\* new, with another record twice in new.
C9_Witness ==
    /\ Returned
    /\ \E r \in Range(old0) : Count(old0, r) = 2 /\ Count(new0, r) = 1
    /\ \E r \in Range(new0) : Count(new0, r) = 2 /\ Count(old0, r) < 2

----------------------------------------------------------------------------
\* The WAF IP set resource: resourceIPSetCreate, resourceIPSetUpdate and
\* resourceIPSetDelete, each with the calls it makes: updateIPSetDescriptors,
\* resourceIPSetRead and the remote API.  A handler runs as a sequence of steps,
\* one per remote request, so that the order of its requests can be observed.

IPSetHandlers ==
    {"resourceIPSetCreate", "resourceIPSetUpdate", "resourceIPSetDelete"}

IPSetId == "ipset"

\* (*schema.Set).List(): the members of a set, each once.
SetLists == {s \in SeqsUpTo(SmallDescriptors, MaxLen) : NoDuplicates(s)}

\* The descriptor sets of the prior state (old) and of the configuration (new).
IPSetInputs ==
    {[old |-> o, new |-> n] : o \in SetLists, n \in SetLists}
        \cup BigInputs
        \cup {BigInput(ipSetUpdatesLimit + Half, 0, 0)}

\* Create has no prior state; delete reads the prior state alone.
HandlerInputs(hh) ==
    IF hh = "resourceIPSetCreate" THEN {in \in IPSetInputs : in.old = <<>>}
    ELSE IF hh = "resourceIPSetDelete" THEN {in \in IPSetInputs : in.new = <<>>}
    ELSE IPSetInputs

\* The remote IP set holding the descriptors of a list of the state, as
\* waf.IPSetDescriptor values.
RemoteOf(l) == {[Type |-> x.type, Value |-> x.value] : x \in Range(l)}

\* The remote IP set before the handler runs: what the prior state records.
RemoteAtStart == RemoteOf(old0)

\* NewRetryer(conn).RetryWithToken(f): the answer of the wrapped request, its
\* output or an error.
RetryWithToken == {"ok", "error"}

\* The remote service applying the updates of one accepted UpdateIPSet request.
ApplyUpdates(rem, batch) ==
    LET deleted == {batch[k].IPSetDescriptor : k \in {j \in 1..Len(batch) : IsDelete(batch[j])}}
        inserted == {batch[k].IPSetDescriptor : k \in {j \in 1..Len(batch) : IsInsert(batch[j])}}
    IN (rem \ deleted) \cup inserted

Request(api, updates, answer) ==
    [api |-> api, updates |-> updates, answer |-> answer]

\* The guards under which the three handlers call updateIPSetDescriptors.
CallsAlways(hh, o, n) == TRUE

CallsUpdateDescriptors(hh, o, n) ==
    IF hh = "resourceIPSetCreate" THEN Len(n) > 0
    ELSE IF hh = "resourceIPSetUpdate" THEN Range(o) # Range(n)
    ELSE Len(o) > 0

\* The arguments the three handlers pass to updateIPSetDescriptors.
OldArg(hh, o) == IF hh = "resourceIPSetCreate" THEN <<>> ELSE o
NewArg(hh, n) == IF hh = "resourceIPSetDelete" THEN <<>> ELSE n

\* What a handler does once its descriptors are settled.
AfterDescriptors(hh) ==
    IF hh = "resourceIPSetDelete" THEN "DeleteIPSet" ELSE "read"

\* updateIPSetDescriptors: the batch its loop takes at its i-th pass.
BatchAtReversed(plan, i) == plan[Len(plan) + 1 - i]

BatchAt(plan, i) == plan[i]

\* updateIPSetDescriptors, a request failed: it returns the error, and the
\* handler returns it in turn.
AfterBatchErrorGoOn(hh) == AfterDescriptors(hh)

AfterBatchError(hh) == "end"

\* updateIPSetDescriptors, a request failed: it sends nothing more.
FailBatchRollback(reqs, rem) ==
    [requests |-> Append(reqs, Request("UpdateIPSet", <<>>, "ok")),
     remote |-> RemoteAtStart]

FailBatch(reqs, rem) == [requests |-> reqs, remote |-> rem]

\* The read handlers of the six resources and the delete handlers of the usage
\* plan, the virtual MFA device and the Transfer user.  A handler runs as one
\* step; the answers of the remote service are its inputs, and the calls it
\* made are logged in order.

ReadHandlers ==
    {"resourceUsagePlanRead", "resourceVirtualMFADeviceRead",
     "resourceDomainPolicyRead", "resourceAppRead", "resourceUserRead",
     "resourceIPSetRead"}

DeleteHandlers ==
    {"resourceUsagePlanDelete", "resourceVirtualMFADeviceDelete",
     "resourceUserDelete"}

\* The answers of a remote call: success, the service's not-found error (the
\* finders report it so that tfresource.NotFound holds), any other error.
Answers == {"ok", "NotFound", "error"}

\* An ID that UserParseResourceID and decodeAppID reject.
MalformedId == "malformed"
ResourceId == "id"

\* The handlers that take their ID apart before they call the service.
ParsesId(hh) == hh \in {"resourceAppRead", "resourceUserRead", "resourceUserDelete"}

\* The call by which each read handler looks the resource up.
FindCall(hh) ==
    CASE hh = "resourceUsagePlanRead" -> "GetUsagePlan"
      [] hh = "resourceVirtualMFADeviceRead" -> "FindVirtualMFADevice"
      [] hh = "resourceDomainPolicyRead" -> "FindDomainByName"
      [] hh = "resourceAppRead" -> "FindAppByName"
      [] hh = "resourceUserRead" -> "FindUserByServerIDAndUserName"
      [] OTHER -> "GetIPSet"

\* The step after the lookup that can fail, where there is one.
LaterStep(hh) ==
    CASE hh = "resourceVirtualMFADeviceRead" -> "ListMFADeviceTags"
      [] hh = "resourceDomainPolicyRead" -> "PolicyToSet"
      [] hh = "resourceAppRead" -> "ListTags"
      [] hh = "resourceUserRead" -> "PolicyToSet"
      [] OTHER -> "none"

\* The attributes a read has written when its later step fails.
AttrsBefore(hh) ==
    CASE hh = "resourceVirtualMFADeviceRead" -> {"arn"}
      [] hh = "resourceAppRead" ->
            {"app_name", "app_type", "arn", "domain_id", "user_profile_name",
             "space_name", "resource_spec"}
      [] hh = "resourceUserRead" ->
            {"arn", "home_directory", "home_directory_mappings",
             "home_directory_type"}
      [] OTHER -> {}

\* The attributes resourceUsagePlanRead writes only when the answer of
\* GetUsagePlan holds the field (up.ApiStages, up.Throttle, up.Quota not nil).
OptionalFields == {"api_stages", "throttle_settings", "quota_settings"}

\* The attributes a read that succeeds has written, given the optional fields
\* that the answer of its lookup holds.
AttrsAll(hh, held) ==
    CASE hh = "resourceUsagePlanRead" ->
            {"tags", "tags_all", "arn", "name", "description", "product_code"}
                \cup (held \cap OptionalFields)
      [] hh = "resourceVirtualMFADeviceRead" -> {"arn", "tags", "tags_all"}
      [] hh = "resourceDomainPolicyRead" -> {"access_policies"}
      [] hh = "resourceAppRead" -> AttrsBefore(hh) \cup {"tags", "tags_all"}
      [] hh = "resourceUserRead" ->
            AttrsBefore(hh) \cup {"policy", "posix_profile", "role", "server_id",
                                  "user_name", "tags", "tags_all"}
      [] OTHER -> {"ip_set_descriptors", "name", "arn"}

\* The test under which a read takes the resource out of the state: the
\* lookup answered not-found and, in every read but the IP set's, the resource
\* is not new.
RemovesFromStateNever(hh, dd, answer) == FALSE

RemovesFromState(hh, dd, answer) ==
    /\ answer = "NotFound"
    /\ (hh # "resourceIPSetRead" => ~dd.isNew)

\* A read handler, given the answer of its lookup, the outcome of its later
\* step and the optional fields the answer holds: the resource data it
\* leaves, its diagnostics and the calls it made.
Read(hh, dd, answer, later, held) ==
    LET find == <<Request(FindCall(hh), <<>>, answer)>>
    IN IF ParsesId(hh) /\ dd.id = MalformedId
       THEN [d |-> dd, diags |-> "error", calls |-> <<>>]
       ELSE IF RemovesFromState(hh, dd, answer)
       THEN [d |-> [dd EXCEPT !.id = ""], diags |-> "none", calls |-> find]
       ELSE IF answer # "ok"
       THEN [d |-> dd, diags |-> "error", calls |-> find]
       ELSE IF LaterStep(hh) # "none" /\ later = "error"
       THEN [d |-> [dd EXCEPT !.attrs = @ \cup AttrsBefore(hh)],
             diags |-> "error",
             calls |-> IF LaterStep(hh) = "PolicyToSet" THEN find
                       ELSE find \o <<Request(LaterStep(hh), <<>>, later)>>]
       ELSE [d |-> [dd EXCEPT !.attrs = @ \cup AttrsAll(hh, held)],
             diags |-> "none",
             calls |-> IF LaterStep(hh) \in {"none", "PolicyToSet"} THEN find
                       ELSE find \o <<Request(LaterStep(hh), <<>>, "ok")>>]

IPSetInit ==
    /\ h \in IPSetHandlers
    /\ \E in \in HandlerInputs(h) :
        /\ old0 = in.old
        /\ new0 = in.new
        /\ callerOld = in.old
        /\ callerNew = in.new
        /\ remote = RemoteOf(in.old)
    /\ pc = IF h = "resourceIPSetCreate" THEN "begin" ELSE "descriptors"
    /\ d = [id |-> IF h = "resourceIPSetCreate" THEN "" ELSE IPSetId,
            isNew |-> (h = "resourceIPSetCreate"),
            attrs |-> {}]
    /\ updatesBatches = <<>>
    /\ firstPlan = <<>>
    /\ cfg = <<>>
    /\ next = 0
    /\ requests = <<>>
    /\ diags = "none"

\* resourceIPSetCreate: CreateIPSet, then SetId.
CreateIPSet ==
    /\ pc = "begin"
    /\ \E answer \in RetryWithToken :
        /\ requests' = Append(requests, Request("CreateIPSet", <<>>, answer))
        /\ IF answer = "error"
           THEN /\ diags' = "error"
                /\ pc' = "end"
                /\ d' = d
           ELSE /\ diags' = diags
                /\ pc' = "descriptors"
                /\ d' = [d EXCEPT !.id = IPSetId]
    /\ UNCHANGED <<old0, new0, callerOld, callerNew, updatesBatches, firstPlan,
                   h, cfg, next, remote>>

\* The handler's guard, and updateIPSetDescriptors computing the plan it ranges
\* over.
Descriptors ==
    /\ pc = "descriptors"
    /\ IF CallsUpdateDescriptors(h, old0, new0)
       THEN LET r == DiffIPSetDescriptors(OldArg(h, old0), NewArg(h, new0))
            IN /\ updatesBatches' = r.plan
               /\ callerNew' = r.newArr
               /\ next' = 1
               /\ pc' = "submit"
       ELSE /\ pc' = AfterDescriptors(h)
            /\ UNCHANGED <<updatesBatches, callerNew, next>>
    /\ UNCHANGED <<old0, new0, callerOld, firstPlan, h, d, cfg, requests,
                   remote, diags>>

\* updateIPSetDescriptors: one pass of its loop, one UpdateIPSet request.
SubmitBatch ==
    /\ pc = "submit"
    /\ next <= Len(updatesBatches)
    /\ \E answer \in RetryWithToken :
        LET req == Request("UpdateIPSet", BatchAt(updatesBatches, next), answer)
        IN IF answer = "error"
           THEN LET f == FailBatch(Append(requests, req), remote)
                IN /\ requests' = f.requests
                   /\ remote' = f.remote
                   /\ diags' = "error"
                   /\ pc' = AfterBatchError(h)
                   /\ next' = next
           ELSE /\ requests' = Append(requests, req)
                /\ remote' = ApplyUpdates(remote, req.updates)
                /\ diags' = diags
                /\ next' = next + 1
                /\ pc' = IF next + 1 > Len(updatesBatches)
                         THEN AfterDescriptors(h) ELSE "submit"
    /\ UNCHANGED <<old0, new0, callerOld, callerNew, updatesBatches, firstPlan,
                   h, d, cfg>>

\* resourceIPSetRead at the end of create and update.
ReadIPSet ==
    /\ pc = "read"
    /\ \E answer \in {"ok", "NotFound", "error"} :
        LET r == Read("resourceIPSetRead", d, answer, "ok", {})
        IN /\ requests' = requests \o r.calls
           /\ d' = r.d
           /\ diags' = r.diags
    /\ pc' = "end"
    /\ UNCHANGED <<old0, new0, callerOld, callerNew, updatesBatches, firstPlan,
                   h, cfg, next, remote>>

\* resourceIPSetDelete: DeleteIPSet.
DeleteIPSet ==
    /\ pc = "DeleteIPSet"
    /\ \E answer \in RetryWithToken :
        /\ requests' = Append(requests, Request("DeleteIPSet", <<>>, answer))
        /\ diags' = IF answer = "error" THEN "error" ELSE diags
    /\ pc' = "end"
    /\ UNCHANGED <<old0, new0, callerOld, callerNew, updatesBatches, firstPlan,
                   h, d, cfg, next, remote>>

IPSetNext ==
    \/ CreateIPSet
    \/ Descriptors
    \/ SubmitBatch
    \/ ReadIPSet
    \/ DeleteIPSet

SpecIPSet == IPSetInit /\ [][IPSetNext]_vars

\* The UpdateIPSet requests issued so far, in order.
UpdateRequests == SelectSeq(requests, LAMBDA r : r.api = "UpdateIPSet")

\* A request of updateIPSetDescriptors was answered with an error.
BatchFailed ==
    \E k \in 1..Len(requests) :
        requests[k].api = "UpdateIPSet" /\ requests[k].answer = "error"

\* C11: updateIPSetDescriptors sends the batches of the plan in the plan's
\* order, one UpdateIPSet request per batch; a batch is sent only when every
\* batch before it was accepted, and once a request fails no further batch is
\* sent and the handler returns an error.
C11_BatchesInPlanOrder ==
    h \in IPSetHandlers =>
        LET u == UpdateRequests
        IN /\ Len(u) <= Len(updatesBatches)
           /\ \A i \in 1..Len(u) : u[i].updates = updatesBatches[i]
           /\ \A i \in 1..(Len(u) - 1) : u[i].answer = "ok"
           /\ BatchFailed =>
                /\ pc = "end"
                /\ diags = "error"
                /\ requests[Len(requests)].api = "UpdateIPSet"
           /\ (pc \in {"read", "DeleteIPSet"} /\ updatesBatches # <<>>) =>
                Len(u) = Len(updatesBatches)

\* A plan of three batches whose second request failed: the third was not sent.
C11_Witness ==
    /\ h = "resourceIPSetCreate"
    /\ Len(updatesBatches) = 3
    /\ pc = "end"
    /\ Len(UpdateRequests) = 2
    /\ UpdateRequests[1].answer = "ok"
    /\ UpdateRequests[2].answer = "error"
    /\ UpdateRequests[2].updates = updatesBatches[2]
    /\ diags = "error"

\* The remote IP set after the first k batches of the plan were applied to it.
RECURSIVE ApplyBatches(_, _, _)

ApplyBatches(rem, plan, k) ==
    IF k = 0 THEN rem
    ELSE ApplyUpdates(ApplyBatches(rem, plan, k - 1), plan[k])

\* C12: when the k-th batch fails, the batches before it stay applied: the
\* failed request is the last request of the handler (nothing is sent to undo
\* the earlier ones), and the remote IP set is what the first k - 1 batches made
\* of it.
C12_NoRollback ==
    (h \in IPSetHandlers /\ BatchFailed) =>
        LET k == Len(UpdateRequests)
            last == requests[Len(requests)]
        IN /\ k <= Len(updatesBatches)
           /\ last = Request("UpdateIPSet", updatesBatches[k], "error")
           /\ \A i \in 1..(Len(requests) - 1) : requests[i].answer = "ok"
           /\ Len(requests) = k + (IF h = "resourceIPSetCreate" THEN 1 ELSE 0)
           /\ remote = ApplyBatches(RemoteAtStart, updatesBatches, k - 1)
           /\ (k > 1 => remote # RemoteAtStart)

\* An update whose second batch failed after its first was applied.
C12_Witness ==
    /\ h = "resourceIPSetUpdate"
    /\ BatchFailed
    /\ Len(UpdateRequests) = 2
    /\ Len(updatesBatches) > 2
    /\ remote = ApplyUpdates(RemoteOf(old0), updatesBatches[1])
    /\ remote # RemoteOf(old0)

----------------------------------------------------------------------------
\* The delete handlers.

\* Most api stages a usage plan of the explored states holds.
MaxStages == 2

ApiStages ==
    {[api_id |-> "a", stage |-> "s1"], [api_id |-> "a", stage |-> "s2"],
     [api_id |-> "b", stage |-> "s1"]}

\* d.Get("api_stages").(*schema.Set).List()
StageLists == {l \in SeqsUpTo(ApiStages, MaxStages) : NoDuplicates(l)}

\* &apigateway.PatchOperation{Op, Path, Value}
PatchOperation(op, path, value) == [Op |-> op, Path |-> path, Value |-> value]

\* resourceUsagePlanDelete: the operations that remove the api stages.
RemoveStages(apiStages) ==
    [k \in 1..Len(apiStages) |->
        PatchOperation("remove", "/apiStages",
                       apiStages[k].api_id \o ":" \o apiStages[k].stage)]

\* resourceUsagePlanDelete goes on to DeleteUsagePlan when the removal of the
\* stages returned no error.
StagesRemovedAlways(answer) == TRUE

StagesRemoved(answer) == answer = "ok"

\* The delete handlers take the service's not-found answer to their delete call
\* for a success.
DeleteToleratesNothing(answer) == FALSE

DeleteTolerates(answer) == answer = "NotFound"

\* resourceUsagePlanDelete, given the state's api stages and the answers of
\* UpdateUsagePlan and DeleteUsagePlan.
resourceUsagePlanDelete(apiStages, updateAnswer, deleteAnswer) ==
    LET update == IF Len(apiStages) > 0
                  THEN <<Request("UpdateUsagePlan", RemoveStages(apiStages), updateAnswer)>>
                  ELSE <<>>
        delete == <<Request("DeleteUsagePlan", <<>>, deleteAnswer)>>
    IN IF Len(apiStages) > 0 /\ ~StagesRemoved(updateAnswer)
       THEN [diags |-> "error", calls |-> update]
       ELSE IF DeleteTolerates(deleteAnswer)
       THEN [diags |-> "none", calls |-> update \o delete]
       ELSE IF deleteAnswer # "ok"
       THEN [diags |-> "error", calls |-> update \o delete]
       ELSE [diags |-> "none", calls |-> update \o delete]

\* resourceVirtualMFADeviceDelete, given the answer of DeleteVirtualMFADevice.
resourceVirtualMFADeviceDelete(answer) ==
    LET delete == <<Request("DeleteVirtualMFADevice", <<>>, answer)>>
    IN IF answer # "ok"
       THEN IF DeleteTolerates(answer)
            THEN [diags |-> "none", calls |-> delete]
            ELSE [diags |-> "error", calls |-> delete]
       ELSE [diags |-> "none", calls |-> delete]

\* resourceUserDelete and userDelete, given the answer of DeleteUser and the
\* outcome of waitUserDeleted.
resourceUserDelete(dd, answer, waited) ==
    LET delete == <<Request("DeleteUser", <<>>, answer)>>
        wait == <<Request("waitUserDeleted", <<>>, waited)>>
    IN IF dd.id = MalformedId
       THEN [diags |-> "error", calls |-> <<>>]
       ELSE IF DeleteTolerates(answer)
       THEN [diags |-> "none", calls |-> delete]
       ELSE IF answer # "ok"
       THEN [diags |-> "error", calls |-> delete]
       ELSE IF waited # "ok"
       THEN [diags |-> "error", calls |-> delete \o wait]
       ELSE [diags |-> "none", calls |-> delete \o wait]

\* A read handler is run on a resource that is in the state already or that
\* its create handler has just made; a delete handler on one in the state.
HandlerInit ==
    /\ h \in ReadHandlers \cup DeleteHandlers
    /\ \E id \in {ResourceId, MalformedId}, new \in BOOLEAN :
        /\ ~ParsesId(h) => id = ResourceId
        /\ h \in DeleteHandlers => ~new
        /\ d = [id |-> id, isNew |-> new, attrs |-> {}]
    /\ IF h = "resourceUsagePlanDelete"
       THEN \E l \in StageLists : cfg = [api_stages |-> l]
       ELSE cfg = <<>>
    /\ pc = "begin"
    /\ requests = <<>>
    /\ diags = "none"
    /\ next = 0
    /\ remote = {}
    /\ old0 = <<>>
    /\ new0 = <<>>
    /\ callerOld = <<>>
    /\ callerNew = <<>>
    /\ updatesBatches = <<>>
    /\ firstPlan = <<>>

ReadResource ==
    /\ pc = "begin"
    /\ h \in ReadHandlers
    /\ \E answer \in Answers, later \in {"ok", "error"}, held \in SUBSET OptionalFields :
        LET r == Read(h, d, answer, later, held)
        IN /\ d' = r.d
           /\ diags' = r.diags
           /\ requests' = r.calls
    /\ pc' = "end"
    /\ UNCHANGED <<old0, new0, callerOld, callerNew, updatesBatches, firstPlan,
                   h, cfg, next, remote>>

DeleteResource ==
    /\ pc = "begin"
    /\ h \in DeleteHandlers
    /\ \E first \in Answers, second \in Answers :
        LET r == CASE h = "resourceUsagePlanDelete" ->
                        resourceUsagePlanDelete(cfg.api_stages, first, second)
                   [] h = "resourceVirtualMFADeviceDelete" ->
                        resourceVirtualMFADeviceDelete(first)
                   [] OTHER ->
                        resourceUserDelete(d, first, IF second = "ok" THEN "ok" ELSE "error")
        IN /\ diags' = r.diags
           /\ requests' = r.calls
    /\ pc' = "end"
    /\ UNCHANGED <<old0, new0, callerOld, callerNew, updatesBatches, firstPlan,
                   h, d, cfg, next, remote>>

HandlerNext == ReadResource \/ DeleteResource

SpecHandlers == HandlerInit /\ [][HandlerNext]_vars

\* The lookup of a read handler that has run was answered not-found.
LookupNotFound ==
    /\ h \in ReadHandlers
    /\ pc = "end"
    /\ requests # <<>>
    /\ requests[1] = Request(FindCall(h), <<>>, "NotFound")

\* C13: a read of a resource that is in the state already (not new) whose
\* lookup is answered not-found clears the ID, returns no error and writes no
\* attribute; so for each of the six reads.
C13_ReadNotFoundClearsId ==
    (LookupNotFound /\ ~d.isNew) =>
        /\ d.id = ""
        /\ diags = "none"
        /\ d.attrs = {}
        /\ Len(requests) = 1

\* The Transfer user, in the state, is gone: its read cleared the ID.
C13_Witness ==
    /\ h = "resourceUserRead"
    /\ LookupNotFound
    /\ ~d.isNew
    /\ d.id = ""
    /\ diags = "none"

\* The remote delete call of each delete handler.
DeleteCall(hh) ==
    CASE hh = "resourceUsagePlanDelete" -> "DeleteUsagePlan"
      [] hh = "resourceVirtualMFADeviceDelete" -> "DeleteVirtualMFADevice"
      [] OTHER -> "DeleteUser"

\* The delete handler has run and its delete call was answered not-found.
DeleteNotFound ==
    /\ h \in DeleteHandlers
    /\ pc = "end"
    /\ \E k \in 1..Len(requests) :
        requests[k] = Request(DeleteCall(h), <<>>, "NotFound")

\* C14: a delete whose remote delete call is answered not-found returns no
\* error, for the usage plan, the virtual MFA device and the Transfer user;
\* the Transfer user's delete then does not wait for the deletion.
C14_DeleteNotFoundSucceeds ==
    DeleteNotFound =>
        /\ diags = "none"
        /\ requests[Len(requests)].api = DeleteCall(h)

\* DeleteUser answered not-found: success, and no wait.
C14_Witness ==
    /\ h = "resourceUserDelete"
    /\ DeleteNotFound
    /\ diags = "none"
    /\ requests = <<Request("DeleteUser", <<>>, "NotFound")>>

\* C15: the delete of a usage plan that is gone remotely (every call it makes
\* is answered not-found) returns no error, with api stages in the state or
\* without.
C15_DeleteGonePlanSucceeds ==
    ( /\ h = "resourceUsagePlanDelete"
      /\ pc = "end"
      /\ \A k \in 1..Len(requests) : requests[k].answer = "NotFound" )
        => diags = "none"

\* C18: in every read, a not-found answer for a resource that was just created
\* is an error and leaves the ID set; the ID is cleared only for a resource that
\* is not new.
C18_NewResourceNotFoundIsError ==
    /\ (LookupNotFound /\ d.isNew) => (diags = "error" /\ d.id # "")
    /\ (h \in ReadHandlers /\ pc = "end" /\ d.id = "") => ~d.isNew

\* C20: the delete of a usage plan with api stages in the state first sends one
\* UpdateUsagePlan that removes every stage, then DeleteUsagePlan; when the
\* removal fails DeleteUsagePlan is not sent and an error is returned; with no
\* api stages DeleteUsagePlan is the only call.
C20_StagesRemovedBeforeDelete ==
    (h = "resourceUsagePlanDelete" /\ pc = "end") =>
        LET stages == cfg.api_stages
        IN IF Len(stages) = 0
           THEN Len(requests) = 1 /\ requests[1].api = "DeleteUsagePlan"
           ELSE /\ requests[1].api = "UpdateUsagePlan"
                /\ Len(requests[1].updates) = Len(stages)
                /\ \A k \in 1..Len(stages) :
                    requests[1].updates[k] =
                        [Op |-> "remove", Path |-> "/apiStages",
                         Value |-> stages[k].api_id \o ":" \o stages[k].stage]
                /\ IF requests[1].answer = "ok"
                   THEN Len(requests) = 2 /\ requests[2].api = "DeleteUsagePlan"
                   ELSE Len(requests) = 1 /\ diags = "error"

\* Two stages in the state, their removal failed: DeleteUsagePlan was not sent.
C20_Witness ==
    /\ h = "resourceUsagePlanDelete"
    /\ pc = "end"
    /\ Len(cfg.api_stages) = 2
    /\ Len(requests) = 1
    /\ requests[1].api = "UpdateUsagePlan"
    /\ requests[1].answer = "error"
    /\ diags = "error"

----------------------------------------------------------------------------
\* Properties of the WAF IP set handlers.

\* C16: every UpdateIPSet request that create, update and delete send carries
\* at least one update and at most ipSetUpdatesLimit: under the guards of the
\* three handlers no empty batch is sent.
C16_RequestSizes ==
    h \in IPSetHandlers =>
        \A k \in 1..Len(requests) :
            requests[k].api = "UpdateIPSet" =>
                /\ Len(requests[k].updates) >= 1
                /\ Len(requests[k].updates) <= ipSetUpdatesLimit

\* An update of 1001 operations: a full request, then a request of one update.
C16_Witness ==
    /\ h = "resourceIPSetUpdate"
    /\ Len(UpdateRequests) = 2
    /\ Len(UpdateRequests[1].updates) = ipSetUpdatesLimit
    /\ Len(UpdateRequests[2].updates) = 1

\* The DeleteIPSet request was sent.
DeleteIPSetSent ==
    \E k \in 1..Len(requests) : requests[k].api = "DeleteIPSet"

\* C19: the delete of a WAF IP set removes every descriptor of the state, in
\* Delete batches, before it sends DeleteIPSet; when a batch fails DeleteIPSet
\* is not sent and an error is returned; with no descriptor in the state
\* DeleteIPSet is the only request.
C19_DescriptorsRemovedBeforeDelete ==
    h = "resourceIPSetDelete" =>
        /\ DeleteIPSetSent =>
            LET u == UpdateRequests
                sent == Flatten([k \in 1..Len(u) |-> u[k].updates])
            IN /\ requests[Len(requests)].api = "DeleteIPSet"
               /\ Len(requests) = Len(u) + 1
               /\ \A k \in 1..Len(u) : u[k].answer = "ok"
               /\ Len(sent) = Len(old0)
               /\ \A k \in 1..Len(sent) : IsDelete(sent[k])
               /\ {sent[k].IPSetDescriptor : k \in 1..Len(sent)} = RemoteOf(old0)
               /\ remote = {}
        /\ BatchFailed => (~DeleteIPSetSent /\ pc = "end" /\ diags = "error")
        /\ (pc = "end" /\ ~BatchFailed) => DeleteIPSetSent
        /\ (pc = "end" /\ old0 = <<>>) => Len(requests) = 1

\* 1500 descriptors removed in two batches, then DeleteIPSet.
C19_Witness ==
    /\ h = "resourceIPSetDelete"
    /\ pc = "end"
    /\ Len(old0) > ipSetUpdatesLimit
    /\ Len(requests) = 3
    /\ requests[3] = Request("DeleteIPSet", <<>>, "ok")
    /\ remote = {}
    /\ diags = "none"

----------------------------------------------------------------------------
\* A caller that calls DiffIPSetDescriptors a second time with the slices it
\* passed to the first call.

CallAgain ==
    /\ pc = "done"
    /\ firstPlan' = updatesBatches
    /\ LET r == DiffIPSetDescriptors(callerOld, callerNew)
       IN /\ updatesBatches' = r.plan
          /\ callerNew' = r.newArr
    /\ pc' = "again"
    /\ UNCHANGED <<old0, new0, callerOld, resourceVars>>

NextTwice == Call \/ CallAgain

SpecTwice == Init /\ [][NextTwice]_vars

\* C17: a second call with the same two caller-held slices returns the plan
\* the first call returned.
C17_SecondCallSamePlan ==
    pc = "again" => updatesBatches = firstPlan

----------------------------------------------------------------------------
\* resourceUsagePlanUpdate: the patch operations it builds from the changes of
\* the configuration, and the calls it makes.

\* strconv.Itoa
Itoa(n) == ToString(n)

\* strconv.FormatFloat(x, 'f', -1, 64) of a rate limit; the model holds rate
\* limits in tenths.
FormatFloat(tenths) ==
    LET sign == IF tenths < 0 THEN "-" ELSE ""
        abs == IF tenths < 0 THEN 0 - tenths ELSE tenths
    IN IF abs % 10 = 0 THEN sign \o ToString(abs \div 10)
       ELSE sign \o ToString(abs \div 10) \o "." \o ToString(abs % 10)

\* A patch operation built without a Value.
NoValue == "<nil>"

\* One element of the throttle set of an api stage.
Throttle(path, rate, burst) ==
    [path |-> path, rate_limit |-> rate, burst_limit |-> burst]

\* The api stages the configurations of an update are drawn from: one without
\* throttle, the same stage with one throttle entry, another with two.
UpdateStages ==
    {[api_id |-> "a", stage |-> "s1", throttle |-> <<>>],
     [api_id |-> "a", stage |-> "s1", throttle |-> <<Throttle("/x", 25, 3)>>],
     [api_id |-> "b", stage |-> "s2",
      throttle |-> <<Throttle("/x", 100, 0), Throttle("/y", 5, 7)>>]}

\* fmt.Sprintf("%s:%s", m["api_id"], m["stage"])
StageId(m) == m.api_id \o ":" \o m.stage

\* The two Replace operations of one throttle entry of the stage id.
ThrottleOperations(id, th) ==
    <<PatchOperation("replace",
                     "/apiStages/" \o id \o "/throttle/" \o th.path \o "/rateLimit",
                     FormatFloat(th.rate_limit)),
      PatchOperation("replace",
                     "/apiStages/" \o id \o "/throttle/" \o th.path \o "/burstLimit",
                     Itoa(th.burst_limit))>>

\* The Add of one new stage, with the operations of its throttle entries.
AddStage(m) ==
    <<PatchOperation("add", "/apiStages", StageId(m))>>
        \o Flatten([j \in 1..Len(m.throttle) |->
                        ThrottleOperations(StageId(m), m.throttle[j])])

RemoveOldStages(os) ==
    [k \in 1..Len(os) |-> PatchOperation("remove", "/apiStages", StageId(os[k]))]

AddNewStages(ns) == Flatten([k \in 1..Len(ns) |-> AddStage(ns[k])])

\* The operations for a change of api_stages from the list os to the list ns.
StageOperationsAddsFirst(os, ns) == AddNewStages(ns) \o RemoveOldStages(os)

StageOperations(os, ns) == RemoveOldStages(os) \o AddNewStages(ns)

\* d.HasChange on an attribute of the usage plan.
HasChange(c, attr) ==
    IF attr = "api_stages" THEN Range(c.old_stages) # Range(c.new_stages)
    ELSE attr \in c.changed

\* The operations of name, description and product_code.
FieldOperations(c) ==
    (IF HasChange(c, "name")
     THEN <<PatchOperation("replace", "/name", c.name)>> ELSE <<>>)
    \o (IF HasChange(c, "description")
        THEN <<PatchOperation("replace", "/description", c.description)>> ELSE <<>>)
    \o (IF HasChange(c, "product_code")
        THEN IF c.product_code # ""
             THEN <<PatchOperation("replace", "/productCode", c.product_code)>>
             ELSE <<PatchOperation("remove", "/productCode", NoValue)>>
        ELSE <<>>)

\* The operations of throttle_settings: o and n are never nil, so a new value
\* is always written with Replace.
ThrottleSettingsOperations(c) ==
    IF ~HasChange(c, "throttle_settings") THEN <<>>
    ELSE IF Len(c.throttle_settings) = 0
    THEN <<PatchOperation("remove", "/throttle", NoValue)>>
    ELSE <<PatchOperation("replace", "/throttle/rateLimit",
                          FormatFloat(c.throttle_settings[1].rate_limit)),
           PatchOperation("replace", "/throttle/burstLimit",
                          Itoa(c.throttle_settings[1].burst_limit))>>

\* The operations of quota_settings, once validated.
QuotaOperations(c) ==
    IF ~HasChange(c, "quota_settings") THEN <<>>
    ELSE IF Len(c.quota_settings) = 0
    THEN <<PatchOperation("remove", "/quota", NoValue)>>
    ELSE <<PatchOperation("replace", "/quota/limit", Itoa(c.quota_settings[1].limit)),
           PatchOperation("replace", "/quota/offset", Itoa(c.quota_settings[1].offset)),
           PatchOperation("replace", "/quota/period", c.quota_settings[1].period)>>

\* The update returns before any call when validUsagePlanQuotaSettings rejects
\* the new quota settings.
QuotaRejectedNever(c) == FALSE

QuotaRejected(c) ==
    /\ HasChange(c, "quota_settings")
    /\ Len(c.quota_settings) > 0
    /\ ~c.quota_valid

\* The whole patch list of an update.
UpdateOperations(c) ==
    FieldOperations(c)
        \o (IF HasChange(c, "api_stages")
            THEN StageOperations(c.old_stages, c.new_stages) ELSE <<>>)
        \o ThrottleSettingsOperations(c)
        \o QuotaOperations(c)

\* resourceUsagePlanUpdate, given the answers of UpdateTags, UpdateUsagePlan
\* and of the GetUsagePlan of the read that ends it.
resourceUsagePlanUpdate(dd, c, tagsAnswer, updateAnswer, readAnswer, held) ==
    LET tags == IF HasChange(c, "tags_all")
                THEN <<Request("UpdateTags", <<>>, tagsAnswer)>> ELSE <<>>
        update == <<Request("UpdateUsagePlan", UpdateOperations(c), updateAnswer)>>
        read == Read("resourceUsagePlanRead", dd, readAnswer, "ok", held)
    IN IF QuotaRejected(c)
       THEN [d |-> dd, diags |-> "error", calls |-> <<>>]
       ELSE IF HasChange(c, "tags_all") /\ tagsAnswer # "ok"
       THEN [d |-> dd, diags |-> "error", calls |-> tags]
       ELSE IF updateAnswer # "ok"
       THEN [d |-> dd, diags |-> "error", calls |-> tags \o update]
       ELSE [d |-> read.d, diags |-> read.diags,
             calls |-> tags \o update \o read.calls]

----------------------------------------------------------------------------
\* resourceUsagePlanCreate and resourceVirtualMFADeviceCreate.

\* resourceUsagePlanCreate goes on to its read when the product code call
\* returned no error.
ProductCodeAppliedAlways(answer) == TRUE

ProductCodeApplied(answer) == answer = "ok"

\* resourceUsagePlanCreate, given the answers of CreateUsagePlan, of the
\* UpdateUsagePlan that adds the product code, and of the read's GetUsagePlan.
resourceUsagePlanCreate(dd, c, createAnswer, productAnswer, readAnswer, held) ==
    LET create == <<Request("CreateUsagePlan", <<>>, createAnswer)>>
        product == IF c.product_code # ""
                   THEN <<Request("UpdateUsagePlan",
                                  <<PatchOperation("add", "/productCode", c.product_code)>>,
                                  productAnswer)>>
                   ELSE <<>>
        made == [dd EXCEPT !.id = ResourceId]
        read == Read("resourceUsagePlanRead", made, readAnswer, "ok", held)
    IN IF Len(c.quota_settings) > 0 /\ ~c.quota_valid
       THEN [d |-> dd, diags |-> "error", calls |-> <<>>]
       ELSE IF createAnswer # "ok"
       THEN [d |-> dd, diags |-> "error", calls |-> create]
       ELSE IF c.product_code # "" /\ ~ProductCodeApplied(productAnswer)
       THEN [d |-> made, diags |-> "error", calls |-> create \o product]
       ELSE [d |-> read.d, diags |-> read.diags,
             calls |-> create \o product \o read.calls]

\* The answers of the IAM calls of the create: success, the error that
\* verify.ErrorISOUnsupported recognises for the partition, any other error.
CreateAnswers == {"ok", "unsupported", "error"}

\* The tags of a virtual MFA device: none, default tags of the provider only,
\* tags of the resource.
TagKinds == {"none", "default", "resource"}

\* resourceVirtualMFADeviceCreate calls CreateVirtualMFADevice again, without
\* tags, when the first request carried tags and got the unsupported error.
RetriesOnAnyError(hasTags, answer) == answer # "ok"

RetriesWithoutTags(hasTags, answer) == hasTags /\ answer = "unsupported"

\* The CreateVirtualMFADevice request, with the tags it carries.
CreateDeviceRequest(withTags, answer) ==
    Request("CreateVirtualMFADevice", IF withTags THEN <<"Tags">> ELSE <<>>, answer)

\* resourceVirtualMFADeviceCreate, given the answers of the two creates, of
\* the tagging after create, and of the read.
resourceVirtualMFADeviceCreate(dd, c, first, second, tagged, readAnswer, later) ==
    LET hasTags == c.tags # "none"
        retried == RetriesWithoutTags(hasTags, first)
        creates == <<CreateDeviceRequest(hasTags, first)>>
                    \o (IF retried THEN <<CreateDeviceRequest(FALSE, second)>> ELSE <<>>)
        err == IF retried THEN second ELSE first
        made == [dd EXCEPT !.id = ResourceId,
                           !.attrs = @ \cup {"base_32_string_seed", "qr_code_png"}]
        tagsAfter == retried
        tagging == IF tagsAfter THEN <<Request("virtualMFAUpdateTags", <<"Tags">>, tagged)>>
                   ELSE <<>>
        read == Read("resourceVirtualMFADeviceRead", made, readAnswer, later, {})
    IN IF err # "ok"
       THEN [d |-> dd, diags |-> "error", calls |-> creates]
       ELSE IF tagsAfter /\ tagged # "ok"
                 /\ ~(c.tags = "default" /\ tagged = "unsupported")
       THEN [d |-> made, diags |-> "error", calls |-> creates \o tagging]
       ELSE [d |-> read.d, diags |-> read.diags,
             calls |-> creates \o tagging \o read.calls]

WriteHandlers ==
    {"resourceUsagePlanCreate", "resourceUsagePlanUpdate",
     "resourceVirtualMFADeviceCreate"}

\* The lists of api stages of the old and of the new configuration.
UpdateStageLists == {l \in SeqsUpTo(UpdateStages, MaxStages) : NoDuplicates(l)}

Quota(limit, offset, period) == [limit |-> limit, offset |-> offset, period |-> period]

\* What changed beside the api stages, and the new values.
Change(changed, productCode, throttleSettings, quotaSettings, quotaValid) ==
    [changed |-> changed, product_code |-> productCode,
     throttle_settings |-> throttleSettings, quota_settings |-> quotaSettings,
     quota_valid |-> quotaValid, name |-> "plan", description |-> "text"]

Changes ==
    LET ts == <<[rate_limit |-> 15, burst_limit |-> 2]>>
        qs == <<Quota(20, 1, "WEEK")>>
        bad == <<Quota(20, 9, "DAY")>>
    IN {Change({}, "", <<>>, <<>>, TRUE),
        Change({"name", "description"}, "", <<>>, <<>>, TRUE),
        Change({"product_code"}, "code", <<>>, <<>>, TRUE),
        Change({"product_code"}, "", ts, qs, TRUE),
        Change({"throttle_settings"}, "", <<>>, <<>>, TRUE),
        Change({"throttle_settings"}, "", ts, <<>>, TRUE),
        Change({"quota_settings"}, "", <<>>, <<>>, TRUE),
        Change({"quota_settings"}, "", <<>>, qs, TRUE),
        Change({"quota_settings"}, "", <<>>, bad, FALSE),
        Change({"tags_all"}, "code", ts, bad, FALSE),
        Change({"name", "product_code", "quota_settings", "tags_all"},
               "code", <<>>, bad, FALSE),
        Change({"name", "description", "product_code", "throttle_settings",
                "quota_settings", "tags_all"}, "code", ts, qs, TRUE)}

WriteInit ==
    /\ h \in WriteHandlers
    /\ IF h = "resourceVirtualMFADeviceCreate"
       THEN \E k \in TagKinds : cfg = [tags |-> k]
       ELSE \E c \in Changes, os \in UpdateStageLists, ns \in UpdateStageLists :
            /\ h = "resourceUsagePlanCreate" => os = <<>>
            /\ cfg = [changed |-> c.changed, product_code |-> c.product_code,
                      throttle_settings |-> c.throttle_settings,
                      quota_settings |-> c.quota_settings,
                      quota_valid |-> c.quota_valid,
                      name |-> c.name, description |-> c.description,
                      old_stages |-> os, new_stages |-> ns]
    /\ d = [id |-> IF h = "resourceUsagePlanUpdate" THEN ResourceId ELSE "",
            isNew |-> (h # "resourceUsagePlanUpdate"),
            attrs |-> {}]
    /\ pc = "begin"
    /\ requests = <<>>
    /\ diags = "none"
    /\ next = 0
    /\ remote = {}
    /\ old0 = <<>>
    /\ new0 = <<>>
    /\ callerOld = <<>>
    /\ callerNew = <<>>
    /\ updatesBatches = <<>>
    /\ firstPlan = <<>>

UsagePlanUpdate ==
    /\ pc = "begin"
    /\ h = "resourceUsagePlanUpdate"
    /\ \E tagsAnswer \in {"ok", "error"}, updateAnswer \in Answers, readAnswer \in Answers,
          held \in SUBSET OptionalFields :
        LET r == resourceUsagePlanUpdate(d, cfg, tagsAnswer, updateAnswer, readAnswer, held)
        IN /\ d' = r.d
           /\ diags' = r.diags
           /\ requests' = r.calls
    /\ pc' = "end"
    /\ UNCHANGED <<old0, new0, callerOld, callerNew, updatesBatches, firstPlan,
                   h, cfg, next, remote>>

UsagePlanCreate ==
    /\ pc = "begin"
    /\ h = "resourceUsagePlanCreate"
    /\ \E createAnswer \in Answers, productAnswer \in Answers, readAnswer \in Answers,
          held \in SUBSET OptionalFields :
        LET r == resourceUsagePlanCreate(d, cfg, createAnswer, productAnswer, readAnswer, held)
        IN /\ d' = r.d
           /\ diags' = r.diags
           /\ requests' = r.calls
    /\ pc' = "end"
    /\ UNCHANGED <<old0, new0, callerOld, callerNew, updatesBatches, firstPlan,
                   h, cfg, next, remote>>

VirtualMFADeviceCreate ==
    /\ pc = "begin"
    /\ h = "resourceVirtualMFADeviceCreate"
    /\ \E first \in CreateAnswers, second \in CreateAnswers, tagged \in CreateAnswers,
          readAnswer \in Answers, later \in {"ok", "error"} :
        LET r == resourceVirtualMFADeviceCreate(d, cfg, first, second, tagged,
                                                readAnswer, later)
        IN /\ d' = r.d
           /\ diags' = r.diags
           /\ requests' = r.calls
    /\ pc' = "end"
    /\ UNCHANGED <<old0, new0, callerOld, callerNew, updatesBatches, firstPlan,
                   h, cfg, next, remote>>

WriteNext == UsagePlanUpdate \/ UsagePlanCreate \/ VirtualMFADeviceCreate

SpecWrite == WriteInit /\ [][WriteNext]_vars

----------------------------------------------------------------------------
\* Properties of the usage plan update and create and of the virtual MFA device
\* create.

\* The handler has returned.
Ended(hh) == h = hh /\ pc = "end"

\* The requests of the log that went to the given API.
RequestsTo(api) == SelectSeq(requests, LAMBDA r : r.api = api)

\* The paths of the operations that are not about api stages.
OtherPaths ==
    {"/name", "/description", "/productCode", "/throttle", "/throttle/rateLimit",
     "/throttle/burstLimit", "/quota", "/quota/limit", "/quota/offset",
     "/quota/period"}

\* The operations of a patch list that are about api stages.
StagePart(ops) == SelectSeq(ops, LAMBDA o : o.Path \notin OtherPaths)

\* The number of throttle entries of the stages before the i-th of the list.
RECURSIVE ThrottlesBefore(_, _)

ThrottlesBefore(ns, i) ==
    IF i <= 1 THEN 0
    ELSE ThrottlesBefore(ns, i - 1) + Len(ns[i - 1].throttle)

\* C21: when api_stages changed, the patch list of the update holds one Remove
\* of /apiStages per old stage, all of them before any Add, then one Add of
\* /apiStages per new stage, each Add followed at once by the rateLimit and
\* the burstLimit Replace of each throttle entry of its stage; a stage held by
\* both old and new is removed and added again.
C21_StagePatchOrder ==
    ( /\ Ended("resourceUsagePlanUpdate")
      /\ HasChange(cfg, "api_stages")
      /\ Len(RequestsTo("UpdateUsagePlan")) > 0 ) =>
        LET s == StagePart(RequestsTo("UpdateUsagePlan")[1].updates)
            os == cfg.old_stages
            ns == cfg.new_stages
            at(i) == Len(os) + i + 2 * ThrottlesBefore(ns, i)
        IN /\ Len(RequestsTo("UpdateUsagePlan")) = 1
           /\ Len(s) = at(Len(ns) + 1) - 1
           /\ \A k \in 1..Len(os) :
                /\ s[k].Op = "remove"
                /\ s[k].Path = "/apiStages"
                /\ s[k].Value = os[k].api_id \o ":" \o os[k].stage
           /\ \A i, j \in 1..Len(s) :
                (s[i].Op = "add" /\ s[j].Op = "remove") => j < i
           /\ \A i \in 1..Len(ns) :
                LET id == ns[i].api_id \o ":" \o ns[i].stage
                IN /\ s[at(i)].Op = "add"
                   /\ s[at(i)].Path = "/apiStages"
                   /\ s[at(i)].Value = id
                   /\ \A j \in 1..Len(ns[i].throttle) :
                        LET base == "/apiStages/" \o id \o "/throttle/"
                                        \o ns[i].throttle[j].path
                        IN /\ s[at(i) + 2 * j - 1].Op = "replace"
                           /\ s[at(i) + 2 * j - 1].Path = base \o "/rateLimit"
                           /\ s[at(i) + 2 * j].Op = "replace"
                           /\ s[at(i) + 2 * j].Path = base \o "/burstLimit"

\* A stage with two throttle entries is kept and a throttled stage is added:
\* one Remove, then Add and four Replaces, then Add and two Replaces.
C21_Witness ==
    /\ Ended("resourceUsagePlanUpdate")
    /\ Len(cfg.old_stages) = 1
    /\ Len(cfg.new_stages) = 2
    /\ cfg.new_stages[1] = cfg.old_stages[1]
    /\ Len(cfg.new_stages[1].throttle) = 2
    /\ Len(cfg.new_stages[2].throttle) = 1
    /\ "name" \in cfg.changed
    /\ Len(RequestsTo("UpdateUsagePlan")) = 1
    /\ Len(StagePart(RequestsTo("UpdateUsagePlan")[1].updates)) = 9

\* C22: the create of a usage plan sends CreateUsagePlan first and takes the ID
\* from its answer; a configured product code is added by a separate
\* UpdateUsagePlan sent after it.  When CreateUsagePlan fails the ID stays
\* unset and nothing more is sent; when the product code call fails an error is
\* returned, the ID stays set and no read is made.
C22_CreateThenProductCode ==
    Ended("resourceUsagePlanCreate") =>
        /\ requests # <<>> => requests[1].api = "CreateUsagePlan"
        /\ Len(RequestsTo("CreateUsagePlan")) <= 1
        /\ d.id # "" <=> (requests # <<>> /\ requests[1].answer = "ok")
        /\ (requests # <<>> /\ requests[1].answer # "ok") =>
                (Len(requests) = 1 /\ diags = "error")
        /\ IF cfg.product_code # "" /\ d.id # ""
           THEN /\ Len(requests) >= 2
                /\ requests[2].api = "UpdateUsagePlan"
                /\ requests[2].updates =
                      <<[Op |-> "add", Path |-> "/productCode",
                         Value |-> cfg.product_code]>>
                /\ Len(RequestsTo("UpdateUsagePlan")) = 1
                /\ requests[2].answer # "ok" =>
                      (diags = "error" /\ d.id = ResourceId /\ Len(requests) = 2)
                /\ requests[2].answer = "ok" =>
                      (Len(requests) = 3 /\ requests[3].api = "GetUsagePlan")
           ELSE RequestsTo("UpdateUsagePlan") = <<>>

\* The plan was made, the product code call failed: no read followed.
C22_Witness ==
    /\ Ended("resourceUsagePlanCreate")
    /\ cfg.product_code # ""
    /\ Len(requests) = 2
    /\ requests[1] = Request("CreateUsagePlan", <<>>, "ok")
    /\ requests[2].api = "UpdateUsagePlan"
    /\ requests[2].answer = "error"
    /\ d.id = ResourceId
    /\ diags = "error"

\* C23: when the new quota settings fail their validation the update returns
\* an error and has made no remote call, neither the tag update nor
\* UpdateUsagePlan, whatever else changed.
C23_InvalidQuotaNoCall ==
    ( /\ Ended("resourceUsagePlanUpdate")
      /\ "quota_settings" \in cfg.changed
      /\ Len(cfg.quota_settings) > 0
      /\ ~cfg.quota_valid ) =>
        (diags = "error" /\ requests = <<>>)

\* Name, product code, tags and api stages changed along with a quota that
\* fails validation.
C23_Witness ==
    /\ Ended("resourceUsagePlanUpdate")
    /\ {"quota_settings", "tags_all", "name"} \subseteq cfg.changed
    /\ Range(cfg.old_stages) # Range(cfg.new_stages)
    /\ ~cfg.quota_valid
    /\ diags = "error"
    /\ requests = <<>>

\* C25: the create of a virtual MFA device sends CreateVirtualMFADevice once or
\* twice: a second time only when the first request carried tags and got the
\* partition's unsupported-operation error, and then without tags; any other
\* failure of the first request, or a failure of the second, returns an error
\* and leaves the ID unset.
C25_CreateRetriesWithoutTags ==
    Ended("resourceVirtualMFADeviceCreate") =>
        LET creates == RequestsTo("CreateVirtualMFADevice")
            n == Len(creates)
        IN /\ n \in {1, 2}
           /\ \A k \in 1..n : requests[k] = creates[k]
           /\ creates[1].updates # <<>> <=> cfg.tags # "none"
           /\ n = 2 <=> (creates[1].updates # <<>> /\ creates[1].answer = "unsupported")
           /\ n = 2 => creates[2].updates = <<>>
           /\ creates[n].answer # "ok" =>
                (diags = "error" /\ d.id = "" /\ Len(requests) = n)
           /\ creates[n].answer = "ok" => d.id = ResourceId

\* Tags are unsupported and the create without tags failed too.
C25_Witness ==
    /\ Ended("resourceVirtualMFADeviceCreate")
    /\ cfg.tags = "resource"
    /\ requests = <<CreateDeviceRequest(TRUE, "unsupported"),
                    CreateDeviceRequest(FALSE, "error")>>
    /\ d.id = ""
    /\ diags = "error"

----------------------------------------------------------------------------
\* dataSourceRestAPIRead: the REST API data source.

\* Most pages of a listing, and most REST APIs of one page.
MaxPages == 2
MaxItems == 2

\* The REST APIs of the region: two bear the requested name.
RestApis ==
    {[Id |-> "r1", Name |-> "target"], [Id |-> "r2", Name |-> "target"],
     [Id |-> "r3", Name |-> "other"], [Id |-> "r4", Name |-> "another"]}

\* The listings GetRestApisPages can deliver: a REST API is listed once.
Listings ==
    {l \in UNION {[1..n -> SeqsUpTo(RestApis, MaxItems)] : n \in 1..MaxPages} :
        NoDuplicates(Flatten(l))}

\* The callback of GetRestApisPages: the REST APIs of one page that bear the
\* name.
MatchesOnPage(page, target) == SelectSeq(page, LAMBDA api : api.Name = target)

\* matchedApis once the listing is through: the callback asks for the next
\* page until the last.
MatchedOnFirstPage(pages, target) == MatchesOnPage(pages[1], target)

MatchedApis(pages, target) ==
    Flatten([k \in 1..Len(pages) |-> MatchesOnPage(pages[k], target)])

\* dataSourceRestAPIRead, given the listing, the answer of GetRestApisPages,
\* the answer of GetResourcesPages and whether a resource of path "/" is
\* listed.
dataSourceRestAPIRead(dd, c, listAnswer, resourcesAnswer, hasRoot) ==
    LET list == <<Request("GetRestApis", <<>>, listAnswer)>>
        matchedApis == MatchedApis(c.pages, c.name)
        resources == <<Request("GetResources", <<>>, resourcesAnswer)>>
        written == {"arn", "description", "policy", "api_key_source",
                    "binary_media_types", "minimum_compression_size",
                    "endpoint_configuration", "tags", "execution_arn"}
    IN IF listAnswer # "ok"
       THEN [d |-> dd, diags |-> "error", calls |-> list]
       ELSE IF Len(matchedApis) = 0
       THEN [d |-> dd, diags |-> "error", calls |-> list]
       ELSE IF Len(matchedApis) > 1
       THEN [d |-> dd, diags |-> "error", calls |-> list]
       ELSE LET found == [dd EXCEPT !.id = matchedApis[1].Id,
                                    !.attrs = @ \cup written]
            IN IF resourcesAnswer # "ok"
               THEN [d |-> IF hasRoot
                           THEN [found EXCEPT !.attrs = @ \cup {"root_resource_id"}]
                           ELSE found,
                     diags |-> "error", calls |-> list \o resources]
               ELSE [d |-> IF hasRoot
                           THEN [found EXCEPT !.attrs = @ \cup {"root_resource_id"}]
                           ELSE found,
                     diags |-> "none", calls |-> list \o resources]

DataSourceInit ==
    /\ h = "dataSourceRestAPIRead"
    /\ \E l \in Listings : cfg = [name |-> "target", pages |-> l]
    /\ d = [id |-> "", isNew |-> FALSE, attrs |-> {}]
    /\ pc = "begin"
    /\ requests = <<>>
    /\ diags = "none"
    /\ next = 0
    /\ remote = {}
    /\ old0 = <<>>
    /\ new0 = <<>>
    /\ callerOld = <<>>
    /\ callerNew = <<>>
    /\ updatesBatches = <<>>
    /\ firstPlan = <<>>

RestAPIRead ==
    /\ pc = "begin"
    /\ h = "dataSourceRestAPIRead"
    /\ \E listAnswer \in {"ok", "error"}, resourcesAnswer \in {"ok", "error"},
          hasRoot \in BOOLEAN :
        LET r == dataSourceRestAPIRead(d, cfg, listAnswer, resourcesAnswer, hasRoot)
        IN /\ d' = r.d
           /\ diags' = r.diags
           /\ requests' = r.calls
    /\ pc' = "end"
    /\ UNCHANGED <<old0, new0, callerOld, callerNew, updatesBatches, firstPlan,
                   h, cfg, next, remote>>

DataSourceNext == RestAPIRead

SpecDataSource == DataSourceInit /\ [][DataSourceNext]_vars

\* The REST APIs of the whole listing that bear the requested name.
NamedApis ==
    {api \in Range(Flatten(cfg.pages)) : api.Name = cfg.name}

\* C24: the data source sets the ID exactly when one REST API over all the
\* pages of the listing bears the requested name; with none or with several it
\* returns an error, leaves the ID unset and sends no GetResources.
C24_ExactlyOneMatch ==
    Ended("dataSourceRestAPIRead") =>
        /\ d.id # "" => (Cardinality(NamedApis) = 1 /\ d.id \in {api.Id : api \in NamedApis})
        /\ (requests[1].answer = "ok" /\ Cardinality(NamedApis) = 1) => d.id # ""
        /\ Cardinality(NamedApis) # 1 =>
            /\ diags = "error"
            /\ d.id = ""
            /\ RequestsTo("GetResources") = <<>>

\* The name is borne once on the first page and once on the second: error, no
\* ID, no GetResources.
C24_Witness ==
    /\ Ended("dataSourceRestAPIRead")
    /\ Len(cfg.pages) = 2
    /\ Len(MatchesOnPage(cfg.pages[1], cfg.name)) = 1
    /\ Len(MatchesOnPage(cfg.pages[2], cfg.name)) = 1
    /\ requests = <<Request("GetRestApis", <<>>, "ok")>>
    /\ d.id = ""
    /\ diags = "error"


====
